---- MODULE Spec2Model ----
(***************************************************************************)
(* Model of the notebook toolbox (notebook_v1.py, notebook_v2.py).         *)
(*                                                                         *)
(* Encoding of Python values:                                              *)
(*   - a str is a sequence of one-character strings: "ab\n" is             *)
(*     <<"a", "b", "\n">>; identifiers and fixed decorations that are      *)
(*     never cut or searched (cell ids, outline prefixes) are kept as one  *)
(*     element;                                                            *)
(*   - a list of str is a sequence of such sequences; a str used where a   *)
(*     list of str is expected (Markdownizer) is the sequence of its       *)
(*     one-character strs, which is what Python's indexing, len and join   *)
(*     see;                                                                *)
(*   - a value of varying Python type (execution_count) is a pair          *)
(*     <<type name, printed value>>;                                       *)
(*   - the outcome of a call is a record with kind "ok" or "raise".        *)
(***************************************************************************)
EXTENDS Integers, Sequences, FiniteSets, TLC

VARIABLES ipynb, file, nb, arg, prev, op, res, heap, ref

vars == <<ipynb, file, nb, arg, prev, op, res, heap, ref>>

----------------------------------------------------------------------------
(* Bounds and input sets *)

MaxCells == 3

NL == "\n"

L_abc == <<"a", "b", "c">>
L_abcN == <<"a", "b", "c", NL>>
L_x == <<"x">>
L_N == <<NL>>

\* sources in the ipynb convention: every line but the last keeps its "\n"
Sources == { <<>>, <<L_abc>>, <<L_abcN, L_x>>, <<L_abcN, L_N, L_x>> }

CellTypes == {"code", "markdown", "raw"}

Ids == <<"c1", "c2", "c3", "c4">>

\* nbformat, nbformat_minor pairs
Versions == { <<4, 5>>, <<4, 10>>, <<10, 2>> }

NoAttr == <<"absent", "">>
PyNone == <<"NoneType", "None">>
PyInt1 == <<"int", "1">>

\* a cell of the generic (JSON) representation; position k gives its id
IpynbCell(k, ct, src) ==
    [cell_type |-> ct, id |-> Ids[k], source |-> src,
     execution_count |-> IF ct = "code"
                         THEN (IF src = <<>> THEN PyNone ELSE PyInt1)
                         ELSE NoAttr]

RECURSIVE CellLists(_)
CellLists(n) ==
    IF n = 0 THEN { <<>> }
    ELSE LET shorter == CellLists(n - 1)
         IN  shorter \cup
             { Append(cs, IpynbCell(Len(cs) + 1, ct, src)) :
                 cs \in { c \in shorter : Len(c) = n - 1 },
                 ct \in CellTypes, src \in Sources }

Ipynbs == { [nbformat |-> v[1], nbformat_minor |-> v[2], cells |-> cs] :
            v \in Versions, cs \in CellLists(MaxCells) }

NoIpynb == [nbformat |-> 0, nbformat_minor |-> 0, cells |-> <<>>]

----------------------------------------------------------------------------
(* Python str / list primitives *)

\* str(n) for a non-negative int
RECURSIVE IntToStr(_)
IntToStr(n) ==
    LET d == <<"0", "1", "2", "3", "4", "5", "6", "7", "8", "9">>
    IN  IF n < 10 THEN << d[n + 1] >>
        ELSE IntToStr(n \div 10) \o << d[(n % 10) + 1] >>

\* int(c) for a one-character str c: -1 stands for ValueError
IntOfChar(c) ==
    CASE c = "0" -> 0 [] c = "1" -> 1 [] c = "2" -> 2 [] c = "3" -> 3
      [] c = "4" -> 4 [] c = "5" -> 5 [] c = "6" -> 6 [] c = "7" -> 7
      [] c = "8" -> 8 [] c = "9" -> 9 [] OTHER -> -1

\* sep.join(list)
RECURSIVE Join(_, _)
Join(sep, list) ==
    IF list = <<>> THEN <<>>
    ELSE IF Len(list) = 1 THEN list[1]
    ELSE list[1] \o sep \o Join(sep, Tail(list))

\* s.split("\n"): always at least one element
RECURSIVE SplitFrom(_, _, _)
SplitFrom(s, k, acc) ==
    IF k > Len(s) THEN << acc >>
    ELSE IF s[k] = NL THEN << acc >> \o SplitFrom(s, k + 1, <<>>)
    ELSE SplitFrom(s, k + 1, Append(acc, s[k]))

Split(s) == SplitFrom(s, 1, <<>>)

\* s[2:]
From2(s) == SubSeq(s, 3, Len(s))

----------------------------------------------------------------------------
(* Results of calls *)

NoNotebook == [api |-> "none", version |-> <<>>, cells |-> <<>>]

Ok(v) == [kind |-> "ok", exc |-> "", nb |-> v, text |-> <<>>, dict |-> NoIpynb]
OkText(t) == [kind |-> "ok", exc |-> "", nb |-> NoNotebook, text |-> t, dict |-> NoIpynb]
OkDict(d) == [kind |-> "ok", exc |-> "", nb |-> NoNotebook, text |-> <<>>, dict |-> d]
Raise(e) == [kind |-> "raise", exc |-> e, nb |-> NoNotebook, text |-> <<>>, dict |-> NoIpynb]
NoResult == [kind |-> "none", exc |-> "", nb |-> NoNotebook, text |-> <<>>, dict |-> NoIpynb]

----------------------------------------------------------------------------
(* The cell model and the structural loaders *)

\* notebook_v1: CodeCell(ipynb) / MarkdownCell(ipynb) copy the dict's fields
CodeCellV1(c) ==
    [cls |-> "CodeCell", id |-> c.id, source |-> c.source,
     execution_count |-> c.execution_count, type |-> c.cell_type]

MarkdownCellV1(c) ==
    [cls |-> "MarkdownCell", id |-> c.id, source |-> c.source,
     execution_count |-> NoAttr, type |-> c.cell_type]

\* notebook_v2: CodeCell(id, source, execution_count) / MarkdownCell(id, source)
CodeCell(id, source, ec) ==
    [cls |-> "CodeCell", id |-> id, source |-> source,
     execution_count |-> ec, type |-> "<no attribute>"]

MarkdownCell(id, source) ==
    [cls |-> "MarkdownCell", id |-> id, source |-> source,
     execution_count |-> NoAttr, type |-> "<no attribute>"]

Notebook(api, version, cells) ==
    [api |-> api, version |-> version, cells |-> cells]

\* list_of_cells with the second test of the loop turned into a bare else: every
\* cell that is not markdown is taken for a code cell
RECURSIVE list_of_cells_else(_)
list_of_cells_else(cs) ==
    IF cs = <<>> THEN <<>>
    ELSE LET cell == Head(cs)
         IN  (IF cell.cell_type = "markdown"
              THEN << MarkdownCellV1(cell) >> ELSE << CodeCellV1(cell) >>)
             \o list_of_cells_else(Tail(cs))

\* notebook_v1 Notebook.__init__: the loop over ipynb['cells']
RECURSIVE list_of_cells(_)
list_of_cells(cs) ==
    IF cs = <<>> THEN <<>>
    ELSE LET cell == Head(cs)
             md == IF cell.cell_type = "markdown"
                   THEN << MarkdownCellV1(cell) >> ELSE <<>>
             code == IF cell.cell_type = "code"
                     THEN << CodeCellV1(cell) >> ELSE <<>>
         IN  md \o code \o list_of_cells(Tail(cs))

Notebook_init(d) ==
    Notebook("v1",
             IntToStr(d.nbformat) \o <<".">> \o IntToStr(d.nbformat_minor),
             list_of_cells(d.cells))

\* notebook_v0 helpers imported by notebook_v2
get_format_version(d) ==
    IntToStr(d.nbformat) \o <<".">> \o IntToStr(d.nbformat_minor)

get_cells(d) == d.cells

\* notebook_v2 NotebookLoader.load: the loop over get_cells(ipynb)
RECURSIVE load_cells(_)
load_cells(cs) ==
    IF cs = <<>> THEN <<>>
    ELSE LET cell == Head(cs)
         IN  (IF cell.cell_type = "markdown"
              THEN << MarkdownCell(cell.id, cell.source) >>
              ELSE IF cell.cell_type = "code"
              THEN << CodeCell(cell.id, cell.source, cell.execution_count) >>
              ELSE <<>>)
             \o load_cells(Tail(cs))

NotebookLoader_load(d) ==
    Notebook("v2", get_format_version(d), load_cells(get_cells(d)))

----------------------------------------------------------------------------
(* The py-percent codec *)

HdrCode == <<"#", " ", "%", "%">>
HdrMarkdown == HdrCode \o <<" ", "[", "m", "a", "r", "k", "d", "o", "w", "n", "]">>

\* one iteration of the loop of PyPercentSerializer.to_py_percent; objects of a
\* loaded notebook are pairwise distinct, so cell == self.notebook.cells[0]
\* (identity comparison, no __eq__) holds for the cell at index 0 only
CellScript(cell, first) ==
    IF cell.cls = "MarkdownCell"
    THEN (IF first THEN <<>> ELSE <<NL>>)
         \o HdrMarkdown \o <<NL, "#", " ">>
         \o Join(<<"#", " ">>, cell.source)
         \o <<NL>>
    ELSE (IF first THEN <<>> ELSE <<NL>>)
         \o HdrCode \o <<NL>>
         \o Join(<<>>, cell.source)
         \o <<NL>>

RECURSIVE ScriptFrom(_, _)
ScriptFrom(cells, k) ==
    IF k > Len(cells) THEN <<>>
    ELSE CellScript(cells[k], k = 1) \o ScriptFrom(cells, k + 1)

to_py_percent(notebook) == ScriptFrom(notebook.cells, 1)

\* the inner while lines[i+1] != '' and i+1 < len(lines) of PyPercentLoader.load,
\* i counted from 0 as in the source: lines[i+1] is read before the bound is tested
RECURSIVE Body(_, _, _)
Body(lines, i, source) ==
    IF i + 1 >= Len(lines) THEN [exc |-> "IndexError", i |-> i, source |-> source]
    ELSE IF lines[i + 2] # <<>>
    THEN Body(lines, i + 1, Append(source, From2(lines[i + 2])))
    ELSE [exc |-> "", i |-> i, source |-> source]

\* the outer while i+1 < len(lines) of PyPercentLoader.load
RECURSIVE Scan(_, _, _, _)
Scan(lines, i, cells, version) ==
    IF ~(i + 1 < Len(lines)) THEN Ok(Notebook("v2", version, cells))
    ELSE IF lines[i + 1] = HdrMarkdown
    THEN LET b == Body(lines, i, <<>>)
         IN  IF b.exc # "" THEN Raise(b.exc)
             ELSE Scan(lines, b.i + 2,
                       Append(cells, MarkdownCell("id", b.source)), version)
    ELSE IF lines[i + 1] = HdrCode
    THEN LET b == Body(lines, i, <<>>)
         IN  IF b.exc # "" THEN Raise(b.exc)
             ELSE Scan(lines, b.i + 2,
                       Append(cells,
                              CodeCell("id", b.source, <<"str", "execution_count">>)),
                       version)
    ELSE Scan(lines, i + 1, cells, version)

DefaultVersion == <<"4", ".", "5">>

PyPercentLoader_load(data, version) == Scan(Split(data), 0, <<>>, version)

\* py-percent files written by hand
File_open_code == HdrCode \o <<NL>> \o L_abc
File_code == HdrCode \o <<NL>> \o L_abcN
File_open_markdown == HdrMarkdown \o <<NL, "#", " ">> \o L_abc
File_two == HdrMarkdown \o <<NL, "#", " ">> \o L_abcN \o <<NL>> \o HdrCode \o <<NL>> \o L_abcN
File_junk_first == L_x \o <<NL>> \o HdrCode \o <<NL>> \o L_abcN
File_junk_after == HdrCode \o <<NL>> \o L_abcN \o <<NL>> \o L_x \o <<NL>>
File_header_only == HdrCode \o <<NL>>
File_blank_then_code == <<NL>> \o HdrCode \o <<NL>> \o L_abcN \o <<NL>>

HandFiles == { File_open_code, File_code, File_open_markdown, File_two,
               File_junk_first, File_junk_after, File_header_only,
               File_blank_then_code }

NoFile == [exists |-> FALSE, data |-> <<>>]
FileOf(data) == [exists |-> TRUE, data |-> data]

----------------------------------------------------------------------------
(* Transforms (notebook_v2) *)

Spaces16 == [k \in 1..16 |-> " "]

\* the (non-f) string literal assigned to new_source in Markdownizer.markdownize
new_source ==
    <<"p", "y", "t", "h", "o", "n", NL>> \o Spaces16
    \o <<"{", "c", "e", "l", "l", ".", "s", "o", "u", "r", "c", "e", "}", NL>>
    \o Spaces16

\* a str seen as a list of str: its one-character strs
AsList(s) == [k \in 1..Len(s) |-> << s[k] >>]

RECURSIVE markdownize_cells(_)
markdownize_cells(cs) ==
    IF cs = <<>> THEN <<>>
    ELSE LET cell == Head(cs)
         IN  (IF cell.cls = "CodeCell"
              THEN << MarkdownCell(cell.id, AsList(new_source)) >>
              ELSE << cell >>)
             \o markdownize_cells(Tail(cs))

markdownize(notebook) ==
    Notebook("v2", notebook.version, markdownize_cells(notebook.cells))

RECURSIVE code_cells(_)
code_cells(cs) ==
    IF cs = <<>> THEN <<>>
    ELSE (IF Head(cs).cls = "CodeCell" THEN << Head(cs) >> ELSE <<>>)
         \o code_cells(Tail(cs))

\* remove_markdown_cells with the isinstance test lost: every cell is appended
remove_markdown_cells_unfiltered(notebook) ==
    Notebook("v2", notebook.version, notebook.cells)

remove_markdown_cells(notebook) ==
    Notebook("v2", notebook.version, code_cells(notebook.cells))

----------------------------------------------------------------------------
(* Serializer and Outliner (notebook_v1) *)

SerializedCell(cell) ==
    IF cell.cls = "CodeCell"
    THEN [cell_type |-> cell.type, execution_count |-> cell.execution_count,
          id |-> cell.id, metadata |-> "{}", outputs |-> "[]",
          source |-> cell.source]
    ELSE [cell_type |-> cell.type, execution_count |-> NoAttr,
          id |-> cell.id, metadata |-> "{}", outputs |-> "<no key>",
          source |-> cell.source]

\* Serializer.serialize: int() of the characters at index 0 and 2 of version
serialize(notebook) ==
    LET major == IntOfChar(notebook.version[1])
        minor == IntOfChar(notebook.version[3])
    IN  IF major < 0 \/ minor < 0 THEN Raise("ValueError")
        ELSE OkDict([cells |-> [k \in 1..Len(notebook.cells) |->
                                  SerializedCell(notebook.cells[k])],
                     metadata |-> "{}",
                     nbformat |-> major,
                     nbformat_minor |-> minor])

\* outline decorations, each kept as one element:
\* ArrowMd and ArrowCode open a cell's header line; PreTop, PreMid and PreBot
\* are the box-drawing prefixes (top corner, bar, bottom corner) of the first,
\* interior and last line of a source; PreOne is the prefix of a lone line
Title == "Jupyter Notebook v"
ArrowMd == "+-> Markdown cell #"
ArrowCode == "+-> Code cell #"
PreTop == "    r  "
PreMid == "    :  "
PreBot == "    L  "
PreOne == "    | "

\* for k in range(lo, hi): script += PreMid + source[k]   (k counted from 0)
RECURSIVE Interior(_, _, _)
Interior(source, lo, hi) ==
    IF lo >= hi THEN <<>>
    ELSE <<PreMid>> \o source[lo + 1] \o Interior(source, lo + 1, hi)

\* the text one cell adds to script in Outliner.outline; IndexError when
\* cell.source[0] is read on an empty source
CellOutline(cell) ==
    LET n == Len(cell.source)
    IN  IF cell.cls = "MarkdownCell"
        THEN IF n > 1
             THEN [exc |-> "", text |->
                     <<NL, ArrowMd, cell.id, NL>>
                     \o <<PreTop>> \o cell.source[1]
                     \o Interior(cell.source, 1, n - 1)
                     \o <<PreBot>> \o cell.source[n]]
             ELSE IF n = 0 THEN [exc |-> "IndexError", text |-> <<>>]
             ELSE [exc |-> "", text |->
                     <<NL, ArrowMd, cell.id, NL>>
                     \o <<PreOne>> \o cell.source[1] \o <<NL>>]
        ELSE IF n > 1
             THEN [exc |-> "", text |->
                     <<NL, ArrowCode, cell.id, " (", cell.execution_count[2], ")", NL>>
                     \o <<PreTop>> \o cell.source[1]
                     \o Interior(cell.source, 1, n)
                     \o <<PreBot>> \o cell.source[n]]
             ELSE IF n = 0 THEN [exc |-> "IndexError", text |-> <<>>]
             ELSE [exc |-> "", text |->
                     <<NL, ArrowCode, cell.id, " (", cell.execution_count[2], ")", NL>>
                     \o <<PreOne>> \o cell.source[1]]

RECURSIVE OutlineFrom(_, _, _)
OutlineFrom(cells, k, script) ==
    IF k > Len(cells) THEN OkText(script)
    ELSE LET c == CellOutline(cells[k])
         IN  IF c.exc # "" THEN Raise(c.exc)
             ELSE OutlineFrom(cells, k + 1, script \o c.text)

outline(notebook) ==
    OutlineFrom(notebook.cells, 1, <<Title>> \o notebook.version)

----------------------------------------------------------------------------
(* Objects: the same constructors and transforms, seen as effects on the heap *)

\* heap is the sequence of the objects created so far, an object's address being
\* its index; ref gives the addresses of the Notebooks that nb, arg and res
\* denote (0: none). Only Notebook, list and cell objects are kept.
NoCell == [cls |-> "none", id |-> "", source |-> <<>>,
           execution_count |-> NoAttr, type |-> ""]

NotebookObj(api, version, cells) ==
    [kind |-> "Notebook", api |-> api, version |-> version, cells |-> cells,
     items |-> <<>>, val |-> NoCell]

ListObj(items) ==
    [kind |-> "list", api |-> "", version |-> <<>>, cells |-> 0,
     items |-> items, val |-> NoCell]

CellObj(val) ==
    [kind |-> "cell", api |-> "", version |-> <<>>, cells |-> 0,
     items |-> <<>>, val |-> val]

NoRefs == [nb |-> 0, arg |-> 0, res |-> 0]

\* the value of the Notebook at address r
Deref(h, r) ==
    IF r = 0 THEN NoNotebook
    ELSE LET items == h[h[r].cells].items
         IN  Notebook(h[r].api, h[r].version,
                      [k \in 1..Len(items) |-> h[items[k]].val])

\* cells = []; one new cell object appended per cell; Notebook(version, cells):
\* what the loaders (Notebook.__init__, NotebookLoader.load, PyPercentLoader.load)
\* create for the notebook value n. The new Notebook is the last object.
New(h, n) ==
    LET list == Len(h) + 1
        k == Len(n.cells)
    IN  h \o << ListObj([j \in 1..k |-> list + j]) >>
          \o [j \in 1..k |-> CellObj(n.cells[j])]
          \o << NotebookObj(n.api, n.version, list) >>

\* list.append(x) on the list object at address l
AppendTo(h, l, x) == [h EXCEPT ![l].items = Append(@, x)]

\* the loop of Markdownizer.markdownize over the cell objects of the input
RECURSIVE markdownize_loop(_, _, _, _)
markdownize_loop(h, items, k, cells) ==
    IF k > Len(items) THEN h
    ELSE LET cell == h[items[k]].val
         IN  IF cell.cls = "CodeCell"
             THEN LET h1 == Append(h, CellObj(MarkdownCell(cell.id, AsList(new_source))))
                  IN  markdownize_loop(AppendTo(h1, cells, Len(h1)), items, k + 1, cells)
             ELSE markdownize_loop(AppendTo(h, cells, items[k]), items, k + 1, cells)

\* markdownize with the loop rewriting the input's own list: the new cell is
\* assigned to self.notebook.cells[k] and that list is handed to the new Notebook
RECURSIVE markdownize_loop_inplace(_, _, _)
markdownize_loop_inplace(h, list, k) ==
    IF k > Len(h[list].items) THEN h
    ELSE LET cell == h[h[list].items[k]].val
         IN  IF cell.cls = "CodeCell"
             THEN LET h1 == Append(h, CellObj(MarkdownCell(cell.id, AsList(new_source))))
                  IN  markdownize_loop_inplace(
                          [h1 EXCEPT ![list].items[k] = Len(h1)], list, k + 1)
             ELSE markdownize_loop_inplace(h, list, k + 1)

markdownize_heap_inplace(h, r) ==
    Append(markdownize_loop_inplace(h, h[r].cells, 1),
           NotebookObj("v2", h[r].version, h[r].cells))

\* Markdownizer.markdownize on the Notebook at address r: the heap afterwards,
\* the returned Notebook being its last object
markdownize_heap(h, r) ==
    LET cells == Len(h) + 1
        h1 == markdownize_loop(Append(h, ListObj(<<>>)), h[h[r].cells].items, 1, cells)
    IN  Append(h1, NotebookObj("v2", h[r].version, cells))

\* the loop of MarkdownLesser.remove_markdown_cells
RECURSIVE remove_loop(_, _, _, _)
remove_loop(h, items, k, cells) ==
    IF k > Len(items) THEN h
    ELSE IF h[items[k]].val.cls = "CodeCell"
    THEN remove_loop(AppendTo(h, cells, items[k]), items, k + 1, cells)
    ELSE remove_loop(h, items, k + 1, cells)

\* MarkdownLesser.remove_markdown_cells on the Notebook at address r
remove_markdown_cells_heap(h, r) ==
    LET cells == Len(h) + 1
        h1 == remove_loop(Append(h, ListObj(<<>>)), h[h[r].cells].items, 1, cells)
    IN  Append(h1, NotebookObj("v2", h[r].version, cells))

----------------------------------------------------------------------------
(* State machine *)

Init ==
    /\ \/ ipynb \in Ipynbs /\ file = NoFile
       \/ ipynb = NoIpynb /\ file \in { FileOf(d) : d \in HandFiles }
    /\ nb = NoNotebook
    /\ arg = NoNotebook
    /\ prev = "none"
    /\ op = "none"
    /\ res = NoResult
    /\ heap = <<>>
    /\ ref = NoRefs

\* nb = Notebook(ipynb)   (notebook_v1)
NotebookInit ==
    /\ op = "none"
    /\ ipynb # NoIpynb
    /\ nb' = Notebook_init(ipynb)
    /\ op' = "Notebook"
    /\ res' = Ok(nb')
    /\ heap' = New(heap, nb')
    /\ ref' = [ref EXCEPT !.nb = Len(heap'), !.res = Len(heap')]
    /\ UNCHANGED <<ipynb, file, arg, prev>>

\* nb = NotebookLoader(filename).load()   (notebook_v2)
NotebookLoaderLoad ==
    /\ op = "none"
    /\ ipynb # NoIpynb
    /\ nb' = NotebookLoader_load(ipynb)
    /\ op' = "NotebookLoader.load"
    /\ res' = Ok(nb')
    /\ heap' = New(heap, nb')
    /\ ref' = [ref EXCEPT !.nb = Len(heap'), !.res = Len(heap')]
    /\ UNCHANGED <<ipynb, file, arg, prev>>

\* PyPercentSerializer(nb).to_file(filename)
PyPercentToFile ==
    /\ op \in {"Notebook", "NotebookLoader.load"}
    /\ ~file.exists
    /\ arg' = nb
    /\ prev' = op
    /\ op' = "to_file"
    /\ res' = OkText(to_py_percent(nb))
    /\ file' = FileOf(res'.text)
    /\ ref' = [ref EXCEPT !.arg = ref.nb, !.res = 0]
    /\ UNCHANGED <<ipynb, nb, heap>>

\* PyPercentLoader(filename).load(), version left at its default
PyPercentLoaderLoad ==
    /\ file.exists
    /\ op \in {"none", "to_file"}
    /\ arg' = (IF op = "to_file" THEN arg ELSE NoNotebook)
    /\ prev' = op
    /\ op' = "PyPercentLoader.load"
    /\ res' = PyPercentLoader_load(file.data, DefaultVersion)
    /\ heap' = (IF res'.kind = "ok" THEN New(heap, res'.nb) ELSE heap)
    /\ ref' = [ref EXCEPT !.res = IF res'.kind = "ok" THEN Len(heap') ELSE 0]
    /\ UNCHANGED <<ipynb, file, nb>>

IsTransform(o) == o \in {"markdownize", "remove_markdown_cells"}

\* the notebooks a transform can be given: the loaded one, or the one a
\* transform of the loaded one returned
TransformInputs ==
    (IF op = "NotebookLoader.load" THEN { nb } ELSE {})
    \cup (IF IsTransform(op) /\ ref.arg = ref.nb THEN { res.nb } ELSE {})

\* the address of the Notebook object x was read from
RefOf(x) ==
    IF op = "NotebookLoader.load" THEN ref.nb ELSE ref.res

\* Markdownizer(x).markdownize()
Markdownize ==
    /\ \E x \in TransformInputs :
         /\ arg' = x
         /\ res' = Ok(markdownize(x))
         /\ heap' = markdownize_heap(heap, RefOf(x))
         /\ ref' = [ref EXCEPT !.arg = RefOf(x), !.res = Len(heap')]
    /\ prev' = op
    /\ op' = "markdownize"
    /\ UNCHANGED <<ipynb, file, nb>>

\* MarkdownLesser(x).remove_markdown_cells()
RemoveMarkdownCells ==
    /\ \E x \in TransformInputs :
         /\ arg' = x
         /\ res' = Ok(remove_markdown_cells(x))
         /\ heap' = remove_markdown_cells_heap(heap, RefOf(x))
         /\ ref' = [ref EXCEPT !.arg = RefOf(x), !.res = Len(heap')]
    /\ prev' = op
    /\ op' = "remove_markdown_cells"
    /\ UNCHANGED <<ipynb, file, nb>>

\* Serializer(nb).serialize()
Serialize ==
    /\ op = "Notebook"
    /\ arg' = nb
    /\ prev' = op
    /\ op' = "serialize"
    /\ res' = serialize(nb)
    /\ ref' = [ref EXCEPT !.arg = ref.nb, !.res = 0]
    /\ UNCHANGED <<ipynb, file, nb, heap>>

\* Notebook(d) for the dict d that serialize() returned
Reload ==
    /\ op = "serialize"
    /\ res.kind = "ok"
    /\ prev' = op
    /\ op' = "reload"
    /\ res' = Ok(Notebook_init(res.dict))
    /\ heap' = New(heap, res'.nb)
    /\ ref' = [ref EXCEPT !.res = Len(heap')]
    /\ UNCHANGED <<ipynb, file, nb, arg>>

\* Outliner(nb).outline()
Outline ==
    /\ op = "Notebook"
    /\ arg' = nb
    /\ prev' = op
    /\ op' = "outline"
    /\ res' = outline(nb)
    /\ ref' = [ref EXCEPT !.arg = ref.nb, !.res = 0]
    /\ UNCHANGED <<ipynb, file, nb, heap>>

Next ==
    \/ NotebookInit
    \/ NotebookLoaderLoad
    \/ PyPercentToFile
    \/ PyPercentLoaderLoad
    \/ Markdownize
    \/ RemoveMarkdownCells
    \/ Serialize
    \/ Reload
    \/ Outline

Spec == Init /\ [][Next]_vars

----------------------------------------------------------------------------
(* Vocabulary of the properties *)

\* a source line without its line terminator
Content(line) ==
    IF line # <<>> /\ line[Len(line)] = NL
    THEN SubSeq(line, 1, Len(line) - 1) ELSE line

Contents(source) == [k \in 1..Len(source) |-> Content(source[k])]

IsCodeOrMarkdown(c) == c.cell_type \in {"code", "markdown"}
IsCodeCell(c) == c.cls = "CodeCell"
IsMarkdownCell(c) == c.cls = "MarkdownCell"

ClsOfType(ct) == IF ct = "code" THEN "CodeCell" ELSE "MarkdownCell"

\* the py-percent grammar: a header opens a block, whose body runs to the next
\* blank line or the end of input; between blocks only blank lines and headers
\* are recognised (junk = some other line was met there)
RECURSIVE Grammar(_, _, _, _, _)
Grammar(lines, k, open, blocks, junk) ==
    IF k > Len(lines) THEN [blocks |-> blocks, junk |-> junk, open |-> open]
    ELSE IF open
    THEN IF lines[k] = <<>> THEN Grammar(lines, k + 1, FALSE, blocks, junk)
         ELSE LET n == Len(blocks)
                  b == [blocks[n] EXCEPT !.body = Append(@, lines[k])]
              IN  Grammar(lines, k + 1, TRUE, [blocks EXCEPT ![n] = b], junk)
    ELSE IF lines[k] = <<>> THEN Grammar(lines, k + 1, FALSE, blocks, junk)
    ELSE IF lines[k] = HdrMarkdown
    THEN Grammar(lines, k + 1, TRUE,
                 Append(blocks, [cls |-> "MarkdownCell", body |-> <<>>]), junk)
    ELSE IF lines[k] = HdrCode
    THEN Grammar(lines, k + 1, TRUE,
                 Append(blocks, [cls |-> "CodeCell", body |-> <<>>]), junk)
    ELSE Grammar(lines, k + 1, FALSE, blocks, TRUE)

Parsed == Grammar(Split(file.data), 1, FALSE, <<>>, FALSE)

PyLoaded == op = "PyPercentLoader.load"

----------------------------------------------------------------------------
(* C1 *)

SameCellsUpToIds(a, b) ==
    /\ Len(a.cells) = Len(b.cells)
    /\ \A k \in 1..Len(a.cells) :
         /\ a.cells[k].cls = b.cells[k].cls
         /\ Contents(a.cells[k].source) = Contents(b.cells[k].source)

\* C1: reading back the py-percent file written from a notebook yields a notebook
\* with the same number of cells, in the same order, with the same cell types and
\* the same source lines (ids and execution counts excepted).
C1_RoundTrip ==
    (PyLoaded /\ prev = "to_file") =>
        (res.kind = "ok" /\ SameCellsUpToIds(res.nb, arg))

----------------------------------------------------------------------------
(* C2 *)

RECURSIVE PrefixedLines(_, _)
PrefixedLines(prefix, source) ==
    IF source = <<>> THEN <<>>
    ELSE prefix \o Content(Head(source)) \o <<NL>>
         \o PrefixedLines(prefix, Tail(source))

ExpectedBlock(cell) ==
    IF IsMarkdownCell(cell)
    THEN HdrMarkdown \o <<NL>> \o PrefixedLines(<<"#", " ">>, cell.source)
    ELSE HdrCode \o <<NL>> \o PrefixedLines(<<>>, cell.source)

ExpectedScript(cells) ==
    Join(<<NL>>, [k \in 1..Len(cells) |-> ExpectedBlock(cells[k])])

\* C2: to_py_percent() emits the cells in document order, each as its header line
\* followed by its body (markdown lines prefixed with "# ", code lines unprefixed),
\* with no blank line before the first header, exactly one blank line between two
\* consecutive cell blocks and no blank line after the last cell's content.
C2_Layout ==
    op = "to_file" => res.text = ExpectedScript(arg.cells)

----------------------------------------------------------------------------
(* C3 *)

\* C3: load() fails with a FormatError, and returns no Notebook, whenever the input
\* has a line that is not blank, is not a header and is not in the body of an open
\* block.
C3_FormatError ==
    (PyLoaded /\ Parsed.junk) => (res.kind = "raise" /\ res.exc = "FormatError")

----------------------------------------------------------------------------
(* C4 *)

EndsInOpenBody ==
    /\ Parsed.open
    /\ ~Parsed.junk
    /\ Parsed.blocks[Len(Parsed.blocks)].body # <<>>

\* C4: load() does not fail when the input ends while a block body is still open;
\* it returns a Notebook whose last cell holds every line after the last header.
C4_OpenBodyAtEnd ==
    (PyLoaded /\ EndsInOpenBody) =>
        /\ res.kind = "ok"
        /\ Len(res.nb.cells) = Len(Parsed.blocks)
        /\ Len(res.nb.cells[Len(res.nb.cells)].source)
             = Len(Parsed.blocks[Len(Parsed.blocks)].body)

----------------------------------------------------------------------------
(* C5 *)

NoMarkdown(cells) == \A k \in 1..Len(cells) : ~IsMarkdownCell(cells[k])

\* C5: remove_markdown_cells() returns a Notebook with the input's version that
\* holds exactly the input's code cells in their original relative order and no
\* markdown cell; applied to its own result it returns the same cells again.
C5_StripMarkdown ==
    op = "remove_markdown_cells" =>
        /\ res.kind = "ok"
        /\ res.nb.version = arg.version
        /\ res.nb.cells = SelectSeq(arg.cells, IsCodeCell)
        /\ NoMarkdown(res.nb.cells)
        /\ (prev = "remove_markdown_cells" => res.nb.cells = arg.cells)

\* remove_markdown_cells has been applied to a notebook with both kinds of cells,
\* and then to its own (non-empty) result
C5_Witness ==
    /\ op = "remove_markdown_cells"
    /\ prev = "remove_markdown_cells"
    /\ arg.cells # <<>>
    /\ Len(arg.cells) < Len(nb.cells)
    /\ arg.cells = SelectSeq(nb.cells, IsCodeCell)

----------------------------------------------------------------------------
(* C6 *)

\* needle occurs in hay as a contiguous run
Occurs(needle, hay) ==
    \E i \in 0..(Len(hay) - Len(needle)) :
        SubSeq(hay, i + 1, i + Len(needle)) = needle

Text(source) == Join(<<>>, source)

\* C6: markdownize() returns a Notebook with the input's version and the same number
\* of cells in the same order with the same ids, all of them markdown cells: a
\* markdown cell is passed through unchanged, a code cell becomes a markdown cell
\* whose source contains the original code lines in a fenced block tagged python.
C6_Markdownize ==
    op = "markdownize" =>
        /\ res.kind = "ok"
        /\ res.nb.version = arg.version
        /\ Len(res.nb.cells) = Len(arg.cells)
        /\ \A k \in 1..Len(arg.cells) :
             /\ res.nb.cells[k].id = arg.cells[k].id
             /\ IsMarkdownCell(res.nb.cells[k])
             /\ IsMarkdownCell(arg.cells[k]) => res.nb.cells[k] = arg.cells[k]
             /\ IsCodeCell(arg.cells[k]) =>
                  /\ Occurs(<<"p", "y", "t", "h", "o", "n">>,
                            Text(res.nb.cells[k].source))
                  /\ Occurs(Text(arg.cells[k].source),
                            Text(res.nb.cells[k].source))

----------------------------------------------------------------------------
(* C7 *)

Loaded == op \in {"Notebook", "NotebookLoader.load"}

\* C7: building a Notebook from a generic representation drops every cell whose
\* cell_type is neither "code" nor "markdown" without raising, and keeps every code
\* and markdown cell exactly once in its original relative order.
C7_DropsUnsupported ==
    Loaded =>
        LET kept == SelectSeq(ipynb.cells, IsCodeOrMarkdown)
        IN  /\ res.kind = "ok"
            /\ res.nb = nb
            /\ Len(nb.cells) = Len(kept)
            /\ \A k \in 1..Len(kept) :
                 /\ nb.cells[k].id = kept[k].id
                 /\ nb.cells[k].cls = ClsOfType(kept[k].cell_type)
                 /\ nb.cells[k].source = kept[k].source

\* a representation with a raw cell between two supported cells has been loaded
C7_Witness ==
    /\ Loaded
    /\ Len(ipynb.cells) = 3
    /\ IsCodeOrMarkdown(ipynb.cells[1])
    /\ ipynb.cells[2].cell_type = "raw"
    /\ IsCodeOrMarkdown(ipynb.cells[3])
    /\ Len(nb.cells) = 2

----------------------------------------------------------------------------
(* C8 *)

\* the decimal number a str of digits denotes, read from the left
RECURSIVE Decimal(_, _)
Decimal(s, acc) ==
    IF s = <<>> THEN acc
    ELSE Decimal(Tail(s), 10 * acc + IntOfChar(Head(s)))

DotAt(s) == CHOOSE k \in 1..Len(s) : s[k] = "."
Major(version) == Decimal(SubSeq(version, 1, DotAt(version) - 1), 0)
Minor(version) == Decimal(SubSeq(version, DotAt(version) + 1, Len(version)), 0)

SameContent(a, b) ==
    /\ a.version = b.version
    /\ Len(a.cells) = Len(b.cells)
    /\ \A k \in 1..Len(a.cells) :
         /\ a.cells[k].cls = b.cells[k].cls
         /\ a.cells[k].source = b.cells[k].source

\* C8: for a Notebook of version "<major>.<minor>", multi-digit numbers included,
\* serialize() gives nbformat = major and nbformat_minor = minor, and the Notebook
\* built from the serialized representation has the same version, cell order, cell
\* types and sources.
C8_SerializeRoundTrip ==
    /\ op = "serialize" =>
         /\ res.kind = "ok"
         /\ res.dict.nbformat = Major(arg.version)
         /\ res.dict.nbformat_minor = Minor(arg.version)
    /\ op = "reload" => (res.kind = "ok" /\ SameContent(res.nb, arg))

----------------------------------------------------------------------------
(* C9 *)

ExpectedSourceLines(source) ==
    LET n == Len(source)
    IN  IF n = 1 THEN << <<PreOne>> \o Content(source[1]) >>
        ELSE [k \in 1..n |->
                (IF k = 1 THEN <<PreTop>>
                 ELSE IF k = n THEN <<PreBot>> ELSE <<PreMid>>)
                \o Content(source[k])]

ExpectedHeader(cell) ==
    IF IsMarkdownCell(cell) THEN <<ArrowMd, cell.id>>
    ELSE <<ArrowCode, cell.id, " (", cell.execution_count[2], ")">>

RECURSIVE ExpectedCellLines(_)
ExpectedCellLines(cells) ==
    IF cells = <<>> THEN <<>>
    ELSE << ExpectedHeader(Head(cells)) >>
         \o ExpectedSourceLines(Head(cells).source)
         \o ExpectedCellLines(Tail(cells))

\* the lines of a text, a final line terminator not counted as a further line
LinesOf(text) ==
    LET ls == Split(text)
    IN  IF Len(ls) > 1 /\ ls[Len(ls)] = <<>> THEN SubSeq(ls, 1, Len(ls) - 1) ELSE ls

\* C9: outline() renders every cell's source, code cells by the same rules as
\* markdown cells, each source line exactly once and in order: a lone line with the
\* "| " prefix, otherwise the first, interior and last lines with the top, bar and
\* bottom prefixes; each header follows the previous cell's last source line
\* directly.
C9_Outline ==
    (op = "outline" /\ \A k \in 1..Len(arg.cells) : arg.cells[k].source # <<>>) =>
        /\ res.kind = "ok"
        /\ LinesOf(res.text)
             = << <<Title>> \o arg.version >> \o ExpectedCellLines(arg.cells)

----------------------------------------------------------------------------
(* C10 *)

\* C10: in load(), the source of a cell opened by the code header is its body lines
\* taken verbatim, and only the body lines of a cell opened by the markdown header
\* have their first two characters stripped.
C10_BodyLines ==
    (PyLoaded /\ res.kind = "ok" /\ ~Parsed.junk
       /\ Len(res.nb.cells) = Len(Parsed.blocks)) =>
        \A k \in 1..Len(Parsed.blocks) :
            LET body == Parsed.blocks[k].body
                cell == res.nb.cells[k]
            IN  /\ cell.cls = Parsed.blocks[k].cls
                /\ IsCodeCell(cell) => cell.source = body
                /\ IsMarkdownCell(cell) =>
                     cell.source = [j \in 1..Len(body) |-> From2(body[j])]

----------------------------------------------------------------------------
(* C11 *)

\* C11: load() assigns placeholder ids deterministically and without collapsing
\* identity: parsing the same text again yields the same ids, no two cells of one
\* parsed Notebook share an id, and the execution_count of a parsed code cell is
\* the null sentinel, not a str.
C11_PlaceholderIds ==
    (PyLoaded /\ res.kind = "ok") =>
        LET cells == res.nb.cells
            again == PyPercentLoader_load(file.data, DefaultVersion).nb.cells
        IN  /\ [k \in 1..Len(cells) |-> cells[k].id]
                 = [k \in 1..Len(again) |-> again[k].id]
            /\ \A j, k \in 1..Len(cells) : j # k => cells[j].id # cells[k].id
            /\ \A k \in 1..Len(cells) :
                 IsCodeCell(cells[k]) => cells[k].execution_count = PyNone

----------------------------------------------------------------------------
(* C12 *)

ItemsOf(h, r) == h[h[r].cells].items

\* C12: remove_markdown_cells() and markdownize() leave their input Notebook
\* unchanged: after the call the input has the same version and the same cells
\* list (same length, same order), every input cell has the same id, source and
\* type, and the result is a distinct Notebook with a distinct cells list.
C12_InputUnchanged ==
    [][ (IsTransform(op') /\ heap' # heap) =>
          LET a == ref'.arg
              r == ref'.res
          IN  /\ a \in 1..Len(heap)
              /\ Deref(heap, a) = arg'
              /\ heap'[a] = heap[a]
              /\ heap'[heap[a].cells] = heap[heap[a].cells]
              /\ \A k \in 1..Len(ItemsOf(heap, a)) :
                   heap'[ItemsOf(heap, a)[k]] = heap[ItemsOf(heap, a)[k]]
              /\ Deref(heap', a) = arg'
              /\ r # a
              /\ heap'[r].kind = "Notebook"
              /\ heap'[r].cells # heap'[a].cells
              /\ Deref(heap', r) = res'.nb ]_vars

\* markdownize has been applied to a loaded notebook with a code cell and a
\* markdown cell, and the result shares the markdown cell object with its input
C12_Witness ==
    /\ op = "markdownize"
    /\ ref.arg = ref.nb
    /\ \E j, k \in 1..Len(arg.cells) :
         IsCodeCell(arg.cells[j]) /\ IsMarkdownCell(arg.cells[k])
    /\ ref.res # ref.arg
    /\ \E k \in 1..Len(ItemsOf(heap, ref.res)) :
         \E j \in 1..Len(ItemsOf(heap, ref.arg)) :
             ItemsOf(heap, ref.res)[k] = ItemsOf(heap, ref.arg)[j]

====
